---- MODULE Spec2Model ----
(***************************************************************************)
(* Feature alignment and aggregation pipeline of old_yukarin_sosoa         *)
(* (src/old_yukarin_sosoa/dataset.py): get_notsilence_range, f0_mean,      *)
(* FeatureDataset.extract_input, __getitem__ of FeatureDataset,            *)
(* SpeakerFeatureDataset and UnbalancedSpeakerFeatureDataset, and          *)
(* create_dataset.                                                         *)
(*                                                                         *)
(* Conventions.  A numpy array is a TLA+ sequence; python position i is    *)
(* sequence index i+1.  A float is an exact rational <<n, d>> in lowest    *)
(* terms with d > 0; <<0, 0>> is NaN and <<1, 0>>, <<-1, 0>> are the       *)
(* infinities, as IEEE division by zero produces them.  An Optional value  *)
(* is None (the empty tuple) or Some(v) (the 1-tuple of v).                *)
(***************************************************************************)
EXTENDS Integers, Sequences, FiniteSets, TLC

VARIABLES
    \* ---- one call of get_notsilence_range ----
    gr_silence,      \* argument silence (sequence of BOOLEAN)
    gr_guard,        \* argument prepost_silence_length
    gr_out,          \* Some(returned range), None before the call
    \* ---- calls of f0_mean on one array ----
    fm_f0,           \* the array f0 (mutated in place and returned)
    fm_rate,         \* argument rate
    fm_split,        \* argument split_second_list
    fm_weight,       \* argument weight: Some(array) or None
    fm_in,           \* the array as it was before the first call
    fm_first,        \* Some(the array returned by the first call)
    fm_calls,        \* number of calls made
    \* ---- one call of FeatureDataset.extract_input ----
    pc,                      \* position in the body
    error,                   \* <<exception, line>> once raised, else <<>>
    phoneme_list_data,       \* argument: Some(list of spans) or None
    prepost_silence_length,  \* argument
    max_sampling_length,     \* argument
    f0_process_mode,         \* argument
    time_mask_max_second,    \* argument
    time_mask_rate,          \* argument
    rate,                    \* spec_data.rate
    f0,                      \* local array (pitch)
    phoneme,                 \* local array (phoneme class rows)
    silence,                 \* local array (BOOLEAN)
    volume,                  \* local array: Some(array) or None
    spec,                    \* local array (spectrogram rows)
    length,                  \* local
    notsilence_range,        \* local
    offset,                  \* local: Some(crop offset), None when not drawn
    weight,                  \* local: Some(array) or None
    split_second_list,       \* local
    num,                     \* local: number of masked spans
    mask_i,                  \* iterations of the masking loop done
    mask_length,             \* local of the masking loop
    mask_offset,             \* local of the masking loop
    ret,                     \* Some(returned dict), None before the return
    \* ---- history of the call, read by the properties only ----
    resampled_len,           \* the lengths of the series at line 143
    trimmed,                 \* Some(the series as they leave line 165)
    entering_mask,           \* Some(the series as they reach line 214)
    spans,                   \* <<mask_offset, mask_length>> of each iteration
    \* ---- memory shared by the locals with the caller's series ----
    shares,                  \* per local array: Some(position of its first
                             \* row in the stored array it is a view of),
                             \* None when it owns its memory
    \* ---- FeatureDataset / SpeakerFeatureDataset /
    \*      UnbalancedSpeakerFeatureDataset and the calls of __getitem__ ----
    ds_kind,                 \* which of the three classes is indexed
    ds_inputs,               \* FeatureDataset.inputs (stored Input records)
    ds_config,               \* the other fields of FeatureDataset
    ds_speaker_ids,          \* SpeakerFeatureDataset.speaker_ids
    ds_weighted_speaker_id,  \* constructor argument weighted_speaker_id
    ds_weight,               \* UnbalancedSpeakerFeatureDataset.weight
    ds_weighted_indexes,     \* UnbalancedSpeakerFeatureDataset.weighted_indexes
    ds_i,                    \* Some(argument i of the call under way)
    ds_base,                 \* the index passed down to FeatureDataset
    ds_out,                  \* Some(record returned by the call that ended
                             \* last), None while a call is under way
    ds_calls,                \* number of calls started
    \* ---- history of the dataset, read by the properties only ----
    ds_built,                \* the stored tables as the constructor left them
    ds_log,                  \* index, draws and outcome of the first call
                             \* and, until the next call starts, of the
                             \* call that ended last
    \* ---- create_dataset ----
    cd_pc,                   \* position in the body
    cd_error,                \* <<exception, line>> once raised, else <<>>
    files,                   \* per stream: the stems that its glob finds;
                             \* None for an optional glob that is not set
    speaker_dict,            \* Some(content of config.speaker_dict_path)
    num_speaker,             \* config.num_speaker
    seed,                    \* config.seed
    test_num,                \* config.test_num
    fn_list,                 \* local
    speaker_ids,             \* local: Some(dict from stem to id) or None
    trains,                  \* local
    tests,                   \* local
    train_inputs,            \* Some(inputs of _dataset(trains))
    test_inputs,             \* Some(inputs of _dataset(tests, True))
    rng,                     \* what RandomState(seed).shuffle does to a
                             \* list of n items, once it is known
    \* ---- history of create_dataset, read by the properties only ----
    cd_log                   \* per finished run: seed, shuffled list, splits

gr_vars == <<gr_silence, gr_guard, gr_out>>
fm_vars == <<fm_f0, fm_rate, fm_split, fm_weight, fm_in, fm_first, fm_calls>>
ex_args == <<phoneme_list_data, prepost_silence_length, max_sampling_length,
             f0_process_mode, time_mask_max_second, time_mask_rate, rate>>
ex_arrays == <<f0, phoneme, silence, volume, spec>>
ex_locals == <<length, notsilence_range, offset, weight, split_second_list,
               num, mask_i, mask_length, mask_offset>>
ex_history == <<resampled_len, trimmed, entering_mask, spans>>
ex_vars == <<pc, error, ex_args, ex_arrays, ex_locals, ret, ex_history,
            shares>>
ds_tables == <<ds_kind, ds_config, ds_speaker_ids, ds_weighted_speaker_id,
               ds_weight, ds_weighted_indexes, ds_built>>
ds_call == <<ds_i, ds_base, ds_out, ds_calls, ds_log>>
ds_vars == <<ds_inputs, ds_tables, ds_call>>
cd_config == <<files, speaker_dict, num_speaker, test_num>>
cd_locals == <<fn_list, speaker_ids, trains, tests, train_inputs, test_inputs>>
cd_vars == <<cd_pc, cd_error, cd_config, seed, cd_locals, rng, cd_log>>
vars == <<gr_vars, fm_vars, ex_vars, ds_vars, cd_vars>>

None == <<>>
Some(v) == <<v>>
Get(o) == o[1]

----------------------------------------------------------------------------
(* Bounds of the explored inputs.                                          *)

MaxMaskLen == 9      \* longest silence mask given to get_notsilence_range
MaxGuard == 2        \* largest prepost_silence_length
MaxF0Len == 3        \* longest array given to f0_mean
MaxPitch == 2        \* largest pitch value
MaxWeight == 2       \* largest weight value
MaxSplit == 3        \* largest split second
MaxSplits == 2       \* longest split_second_list
MaxLen == 3          \* longest resampled series kept by extract_input
MaxSilenceGuard == 1 \* largest prepost_silence_length of extract_input
MaxEnd == 3          \* latest end second of a phoneme span
MaxUtterances == 3   \* most records of a dataset in the index family
MaxSpeakerWeight == 3 \* largest weight of the weighted speaker
MaxCalls == 2        \* most calls of __getitem__ on one dataset
MaxKeys == 3         \* most stems found by the glob of a required stream
MaxTestNum == 2      \* largest config.test_num
MaxSeed == 1         \* seeds are 0..MaxSeed
MaxRuns == 2         \* most calls of create_dataset on the same files

----------------------------------------------------------------------------
(* Exact arithmetic standing for numpy floats.                             *)

Abs(x) == IF x < 0 THEN -x ELSE x
Max(a, b) == IF a >= b THEN a ELSE b
Min(a, b) == IF a <= b THEN a ELSE b
Sign(x) == IF x > 0 THEN 1 ELSE IF x < 0 THEN -1 ELSE 0

RECURSIVE Gcd(_, _)
Gcd(a, b) == IF b = 0 THEN a ELSE Gcd(b, a % b)

NaN == <<0, 0>>
Rat(n) == <<n, 1>>
IsNaN(x) == x = NaN

\* n / d as numpy divides floats: 0/0 is nan, x/0 is +-inf
Frac(n, d) ==
    IF d = 0 THEN <<Sign(n), 0>>
    ELSE LET g == Gcd(Abs(n), Abs(d))
             s == IF d < 0 THEN -1 ELSE 1
         IN  <<s * (n \div g), s * (d \div g)>>

RatAdd(x, y) ==
    IF x[2] = 0 \/ y[2] = 0
    THEN (IF IsNaN(x) \/ IsNaN(y) THEN NaN
          ELSE IF x[2] # 0 THEN y
          ELSE IF y[2] # 0 THEN x
          ELSE IF x = y THEN x ELSE NaN)
    ELSE Frac(x[1] * y[2] + y[1] * x[2], x[2] * y[2])

RatMul(x, y) ==
    IF x[2] = 0 \/ y[2] = 0
    THEN (IF IsNaN(x) \/ IsNaN(y) \/ x[1] = 0 \/ y[1] = 0 THEN NaN
          ELSE <<Sign(x[1]) * Sign(y[1]), 0>>)
    ELSE Frac(x[1] * y[1], x[2] * y[2])

RatDiv(x, y) ==
    IF x[2] = 0 \/ y[2] = 0
    THEN (IF IsNaN(x) \/ IsNaN(y) THEN NaN
          ELSE IF x[2] = 0 /\ y[2] = 0 THEN NaN
          ELSE IF x[2] = 0 THEN <<x[1] * (IF y[1] < 0 THEN -1 ELSE 1), 0>>
          ELSE Rat(0))
    ELSE IF y[1] = 0 THEN <<Sign(x[1]), 0>>
    ELSE Frac(x[1] * y[2], x[2] * y[1])

\* a > 0 on one element (nan > 0 is False)
RatPos(x) == x[1] > 0

\* numpy.floor(x).astype(int) of a finite float
RatFloor(x) == x[1] \div x[2]

RECURSIVE RatSum(_)
RatSum(s) == IF s = <<>> THEN Rat(0) ELSE RatAdd(s[1], RatSum(Tail(s)))

\* numpy.mean: sum / count, nan for an empty array
RatMean(s) == RatDiv(RatSum(s), Rat(Len(s)))

----------------------------------------------------------------------------
(* numpy indexing.                                                         *)

\* a[lo:hi] for 0 <= lo, 0 <= hi (python slice, clipped to the array)
Slice(a, lo, hi) ==
    LET l == Min(lo, Len(a))
        h == Min(hi, Len(a))
    IN  IF h <= l THEN <<>> ELSE [k \in 1..(h - l) |-> a[l + k]]

\* a[lo:hi] = v, in place
SliceAssign(a, lo, hi, v) ==
    [p \in 1..Len(a) |-> IF lo < p /\ p <= hi THEN v ELSE a[p]]

\* a[mask]: the elements whose mask element is TRUE, in order
RECURSIVE Compress(_, _)
Compress(a, mask) ==
    IF a = <<>> THEN <<>>
    ELSE IF mask[1] THEN <<a[1]>> \o Compress(Tail(a), Tail(mask))
    ELSE Compress(Tail(a), Tail(mask))

\* numpy.argwhere of a boolean array, as the ascending list of python positions
RECURSIVE ArgWhereFrom(_, _)
ArgWhereFrom(b, pos) ==
    IF b = <<>> THEN <<>>
    ELSE IF b[1] THEN <<pos>> \o ArgWhereFrom(Tail(b), pos + 1)
    ELSE ArgWhereFrom(Tail(b), pos + 1)

ArgWhere(b) == ArgWhereFrom(b, 0)

\* range(start, stop) and len() of it
Range(start, stop) == [start |-> start, stop |-> stop]
RangeLen(r) == Max(0, r.stop - r.start)

\* a[range]: fancy indexing, a new array
TakeRange(a, r) == [k \in 1..RangeLen(r) |-> a[r.start + k]]

----------------------------------------------------------------------------
(* get_notsilence_range                                                    *)

\* mutant: the last silent->sound transition is taken for the first one
get_notsilence_range_lastpre(silence_a, guard_a) ==
    LET length_a == Len(silence_a)
        head == Slice(silence_a, 0, length_a - 1)
        tail == Slice(silence_a, 1, length_a)
        ps1 == ArgWhere([k \in 1..Len(head) |-> head[k] /\ ~tail[k]])
        pre_length == IF Len(ps1) > 0 THEN ps1[Len(ps1)] + 1 ELSE 0
        pre_index == Max(0, pre_length - guard_a)
        ps2 == ArgWhere([k \in 1..Len(head) |-> ~head[k] /\ tail[k]])
        post_length == IF Len(ps2) > 0 THEN length_a - (ps2[Len(ps2)] + 1) ELSE 0
        post_index == length_a - Max(0, post_length - guard_a)
    IN  Range(pre_index, post_index)

get_notsilence_range(silence_a, guard_a) ==
    LET length_a == Len(silence_a)
        head == Slice(silence_a, 0, length_a - 1)      \* silence[:-1]
        tail == Slice(silence_a, 1, length_a)          \* silence[1:]
        ps1 == ArgWhere([k \in 1..Len(head) |-> head[k] /\ ~tail[k]])
        pre_length == IF Len(ps1) > 0 THEN ps1[1] + 1 ELSE 0
        pre_index == Max(0, pre_length - guard_a)
        ps2 == ArgWhere([k \in 1..Len(head) |-> ~head[k] /\ tail[k]])
        post_length == IF Len(ps2) > 0 THEN length_a - (ps2[Len(ps2)] + 1) ELSE 0
        post_index == length_a - Max(0, post_length - guard_a)
    IN  Range(pre_index, post_index)

----------------------------------------------------------------------------
(* f0_mean                                                                 *)

\* numpy.split(a, indexes): the sub-arrays are the views a[0:i1], a[i1:i2],
\* ..., a[ik:]; this is the list of their slice bounds
SplitBounds(n, indexes) ==
    [k \in 1..(Len(indexes) + 1) |->
        <<IF k = 1 THEN 0 ELSE indexes[k - 1],
          IF k = Len(indexes) + 1 THEN n ELSE indexes[k]>>]

\* mutant: the samples are not filtered by a > 0
SegmentValue_all(a, b) ==
    IF b = None
    THEN RatMean(a)
    ELSE RatDiv(RatSum([k \in 1..Len(a) |-> RatMul(a[k], Get(b)[k])]),
                RatSum(Get(b)))

\* the right-hand side of "a[:] = ..." for one sub-array a (and b of weight)
SegmentValue(a, b) ==
    LET voiced == [k \in 1..Len(a) |-> RatPos(a[k])]
    IN  IF b = None
        THEN RatMean(Compress(a, voiced))
        ELSE LET av == Compress(a, voiced)
                 bv == Compress(Get(b), voiced)
             IN  RatDiv(RatSum([k \in 1..Len(av) |-> RatMul(av[k], bv[k])]),
                        RatSum(bv))

\* the for loop over the sub-arrays, from the k-th on: each "a[:] = ..."
\* writes through the view into f0
RECURSIVE F0MeanLoop(_, _, _, _)
F0MeanLoop(f0_a, weight_a, bounds, k) ==
    IF k > Len(bounds) THEN f0_a
    ELSE LET lo == bounds[k][1]
             hi == bounds[k][2]
             v == SegmentValue(Slice(f0_a, lo, hi),
                               IF weight_a = None THEN None
                               ELSE Some(Slice(Get(weight_a), lo, hi)))
         IN  F0MeanLoop(SliceAssign(f0_a, lo, hi, v), weight_a, bounds, k + 1)

\* mutant: the split indexes are rounded up
f0_mean_ceil(f0_a, rate_a, split_a, weight_a) ==
    LET indexes == [k \in 1..Len(split_a) |->
                        -RatFloor(RatMul(Rat(-1), RatMul(split_a[k], rate_a)))]
        looped == F0MeanLoop(f0_a, weight_a, SplitBounds(Len(f0_a), indexes), 1)
    IN  [p \in 1..Len(f0_a) |-> IF IsNaN(looped[p]) THEN Rat(0) ELSE looped[p]]

\* mutant: the nan values are not replaced by 0
f0_mean_keepnan(f0_a, rate_a, split_a, weight_a) ==
    LET indexes == [k \in 1..Len(split_a) |->
                        RatFloor(RatMul(split_a[k], rate_a))]
    IN  F0MeanLoop(f0_a, weight_a, SplitBounds(Len(f0_a), indexes), 1)

f0_mean(f0_a, rate_a, split_a, weight_a) ==
    LET indexes == [k \in 1..Len(split_a) |->
                        RatFloor(RatMul(split_a[k], rate_a))]
        looped == F0MeanLoop(f0_a, weight_a, SplitBounds(Len(f0_a), indexes), 1)
    IN  [p \in 1..Len(f0_a) |-> IF IsNaN(looped[p]) THEN Rat(0) ELSE looped[p]]

----------------------------------------------------------------------------
(* FeatureDataset.extract_input                                            *)

mora_phoneme_list ==
    {"a", "i", "u", "e", "o", "A", "I", "U", "E", "O", "N", "cl", "pau"}
voiced_phoneme_list ==
    {"a", "i", "u", "e", "o", "N"}
    \cup {"n", "m", "y", "r", "w", "g", "z", "j", "d", "b"}
    \cup {"ny", "my", "ry", "gy", "by", "gw"}

F0ProcessMode == {"normal", "phoneme_mean", "mora_mean", "voiced_mora_mean"}

\* the bound of the length assertions: abs(len(spec) - len(x)) < 5
LengthTolerance == 5

\* int(x) of a float x >= 0
RatInt(x) == x[1] \div x[2]

\* x - int(x)
RatFracPart(x) == Frac(x[1] - RatInt(x) * x[2], x[2])

\* mutant: high is included, as by random.randint
RandInt_inclusive(high) == 0..high

\* numpy.random.randint(high), for high > 0: the values that can be drawn
RandInt(high) == 0..(high - 1)

\* mutant: the slice stops at max_sampling_length
CropSlice_nooffset(a, o, maxlen) == Slice(a, o, maxlen)

\* a[offset_slice] with offset_slice = slice(offset, offset + max_sampling_length)
CropSlice(a, o, maxlen) == Slice(a, o, o + maxlen)

\* mutant: only time_mask_rate is tested
MaskingEnabled_rateonly(tmax, trate) == RatPos(trate)

\* line 214: time_mask_max_second > 0 and time_mask_rate > 0
MaskingEnabled(tmax, trate) == RatPos(tmax) /\ RatPos(trate)

\* the local arrays of extract_input
ArrayNames == {"f0", "phoneme", "silence", "volume", "spec"}

\* lines 139-143: resample returns a new array; spec is spec_data.array itself
SharesAtLine143 ==
    [a \in ArrayNames |-> IF a = "spec" THEN Some(0) ELSE None]

\* a[range] (lines 158-164) is fancy indexing: every result is a new array
SharesAfterCopy == [a \in ArrayNames |-> None]

\* a[offset_slice] (lines 170-176) is basic slicing: a view of the same memory
SharesAfterSlice(sh, o) ==
    [a \in ArrayNames |-> IF sh[a] = None THEN None ELSE Some(Get(sh[a]) + o)]

\* an in-place write to the local array called a, whose content becomes arr,
\* reaches the stored series of the record being extracted when the local
\* is a view of it
StoreThrough(inputs, a, arr) ==
    IF shares[a] = None THEN inputs
    ELSE LET o == Get(shares[a])
             old == IF a = "volume" THEN Get(inputs[ds_base + 1][a])
                    ELSE inputs[ds_base + 1][a]
             new == [old EXCEPT !.array =
                        [p \in 1..Len(old.array) |->
                            IF o < p /\ p <= o + Len(arr) THEN arr[p - o]
                            ELSE old.array[p]]]
         IN  [inputs EXCEPT ![ds_base + 1][a] =
                 IF a = "volume" THEN Some(new) ELSE new]

\* lines 145-152: the length assertions and length = min(...)
AssertLengths ==
    /\ pc = "assert"
    /\ LET a145 == Abs(Len(spec) - Len(f0)) < LengthTolerance
           a146 == Abs(Len(spec) - Len(phoneme)) < LengthTolerance
           a147 == Abs(Len(spec) - Len(silence)) < LengthTolerance
           a148 == volume = None
                   \/ Abs(Len(spec) - Len(silence)) < LengthTolerance
       IN  IF a145 /\ a146 /\ a147 /\ a148
           THEN /\ length' =
                       LET m == Min(Min(Len(spec), Len(f0)),
                                    Min(Len(phoneme), Len(silence)))
                       IN  IF volume # None THEN Min(m, Len(Get(volume)))
                           ELSE m
                /\ pc' = "trim"
                /\ error' = error
           ELSE /\ pc' = "raised"
                /\ error' = <<"AssertionError",
                              IF ~a145 THEN 145 ELSE IF ~a146 THEN 146
                              ELSE IF ~a147 THEN 147 ELSE 148>>
                /\ length' = length
    /\ UNCHANGED <<ex_args, ex_arrays, notsilence_range, offset, weight,
                   split_second_list, num, mask_i, mask_length, mask_offset,
                   ret, ex_history>>
    /\ UNCHANGED <<shares, ds_inputs>>
    /\ UNCHANGED <<gr_vars, fm_vars, cd_vars, ds_tables, ds_call>>

\* lines 154-165: the leading and trailing silence is removed
Trim ==
    /\ pc = "trim"
    /\ LET r == get_notsilence_range(Slice(silence, 0, length),
                                     prepost_silence_length)
       IN  /\ notsilence_range' = r
           /\ f0' = TakeRange(f0, r)
           /\ silence' = TakeRange(silence, r)
           /\ phoneme' = TakeRange(phoneme, r)
           /\ spec' = TakeRange(spec, r)
           /\ volume' = IF volume # None THEN Some(TakeRange(Get(volume), r))
                        ELSE volume
           /\ length' = RangeLen(r)
    /\ pc' = "crop"
    /\ trimmed' = Some([f0 |-> f0', phoneme |-> phoneme', spec |-> spec'])
    /\ UNCHANGED <<error, ex_args, offset, weight, split_second_list, num,
                   mask_i, mask_length, mask_offset, ret, resampled_len,
                   entering_mask, spans>>
    /\ shares' = SharesAfterCopy
    /\ UNCHANGED ds_inputs
    /\ UNCHANGED <<gr_vars, fm_vars, cd_vars, ds_tables, ds_call>>

\* mutant: the spectrogram is not cropped
Crop_keepspec ==
    /\ pc = "crop"
    /\ IF length > max_sampling_length
       THEN \E o \in RandInt(length - max_sampling_length + 1) :
               /\ offset' = Some(o)
               /\ f0' = CropSlice(f0, o, max_sampling_length)
               /\ silence' = CropSlice(silence, o, max_sampling_length)
               /\ phoneme' = CropSlice(phoneme, o, max_sampling_length)
               /\ spec' = spec
               /\ volume' = IF volume # None
                            THEN Some(CropSlice(Get(volume), o,
                                                max_sampling_length))
                            ELSE volume
               /\ length' = max_sampling_length
       ELSE UNCHANGED <<offset, ex_arrays, length>>
    /\ pc' = "f0_process"
    /\ UNCHANGED <<error, ex_args, notsilence_range, weight, split_second_list,
                   num, mask_i, mask_length, mask_offset, ret, ex_history>>
    /\ shares' = IF length > max_sampling_length
                 THEN SharesAfterSlice(shares, Get(offset'))
                 ELSE shares
    /\ UNCHANGED ds_inputs
    /\ UNCHANGED <<gr_vars, fm_vars, cd_vars, ds_tables, ds_call>>

\* lines 167-177: a window of max_sampling_length samples at a random offset
Crop ==
    /\ pc = "crop"
    /\ IF length > max_sampling_length
       THEN \E o \in RandInt(length - max_sampling_length + 1) :
               /\ offset' = Some(o)
               /\ f0' = CropSlice(f0, o, max_sampling_length)
               /\ silence' = CropSlice(silence, o, max_sampling_length)
               /\ phoneme' = CropSlice(phoneme, o, max_sampling_length)
               /\ spec' = CropSlice(spec, o, max_sampling_length)
               /\ volume' = IF volume # None
                            THEN Some(CropSlice(Get(volume), o,
                                                max_sampling_length))
                            ELSE volume
               /\ length' = max_sampling_length
       ELSE UNCHANGED <<offset, ex_arrays, length>>
    /\ pc' = "f0_process"
    /\ UNCHANGED <<error, ex_args, notsilence_range, weight, split_second_list,
                   num, mask_i, mask_length, mask_offset, ret, ex_history>>
    /\ shares' = IF length > max_sampling_length
                 THEN SharesAfterSlice(shares, Get(offset'))
                 ELSE shares
    /\ UNCHANGED ds_inputs
    /\ UNCHANGED <<gr_vars, fm_vars, cd_vars, ds_tables, ds_call>>

\* lines 185-192: the split seconds of the mode
SplitSecondList(mode, plist) ==
    LET init == Slice(plist, 0, Len(plist) - 1)            \* [:-1]
        keep == [k \in 1..Len(init) |->
                    mode = "phoneme_mean"
                    \/ init[k].phoneme \in mora_phoneme_list]
        kept == Compress(init, keep)
    IN  [k \in 1..Len(kept) |-> kept[k].end]

\* lines 198-200: the weight of every span of an unvoiced phoneme is zeroed,
\* from the k-th span on
RECURSIVE ZeroUnvoiced(_, _, _, _)
ZeroUnvoiced(w, plist, rate_a, k) ==
    IF k > Len(plist) THEN w
    ELSE LET p == plist[k]
             w2 == IF p.phoneme \notin voiced_phoneme_list
                   THEN SliceAssign(w, RatInt(RatMul(p.start, rate_a)),
                                    RatInt(RatMul(p.end, rate_a)), Rat(0))
                   ELSE w
         IN  ZeroUnvoiced(w2, plist, rate_a, k + 1)

\* lines 179-209: the pitch is aggregated per phoneme or per mora
F0Process ==
    /\ pc = "f0_process"
    /\ IF f0_process_mode = "normal"
       THEN /\ pc' = "mask"
            /\ UNCHANGED <<error, f0, volume, weight, split_second_list>>
       ELSE IF phoneme_list_data = None
       THEN /\ pc' = "raised"
            /\ error' = <<"AssertionError", 182>>
            /\ UNCHANGED <<f0, volume, weight, split_second_list>>
       ELSE
         LET plist == Get(phoneme_list_data)
             splits == SplitSecondList(f0_process_mode, plist)
             \* weight after lines 183-200; it is the array of volume
             \* itself when volume is given
             w == IF f0_process_mode = "voiced_mora_mean"
                  THEN Some(ZeroUnvoiced(
                                IF volume = None
                                THEN [k \in 1..Len(f0) |-> Rat(1)]
                                ELSE Get(volume),
                                plist, rate, 1))
                  ELSE volume
         IN  /\ split_second_list' = splits
             /\ volume' = IF volume = None THEN volume ELSE w
             /\ IF w = None
                THEN \* weight[:length] of None
                     /\ pc' = "raised"
                     /\ error' = <<"TypeError", 202>>
                     /\ weight' = w
                     /\ f0' = f0
                ELSE /\ weight' = Some(Slice(Get(w), 0, length))
                     /\ f0' = f0_mean(f0, rate, splits, weight')
                     /\ pc' = "mask"
                     /\ error' = error
    /\ UNCHANGED <<ex_args, phoneme, silence, spec, length, notsilence_range,
                   offset, num, mask_i, mask_length, mask_offset, ret,
                   ex_history>>
    /\ ds_inputs' = StoreThrough(StoreThrough(ds_inputs, "f0", f0'),
                                 "volume",
                                 IF volume' = None THEN <<>>
                                 ELSE Get(volume'))
    /\ UNCHANGED shares
    /\ UNCHANGED <<gr_vars, fm_vars, cd_vars, ds_tables, ds_call>>

\* lines 214-218: the number of masked spans
Mask ==
    /\ pc = "mask"
    /\ IF MaskingEnabled(time_mask_max_second, time_mask_rate)
       THEN LET expected_num == RatMul(time_mask_rate, Rat(length))
                part == RatFracPart(expected_num)
            IN  \* numpy.random.rand() is in [0, 1)
                /\ \E extra \in {0, 1} :
                       /\ (extra = 1) => RatPos(part)
                       /\ num' = RatInt(expected_num) + extra
                /\ mask_i' = 0
                /\ pc' = "mask_loop"
       ELSE /\ pc' = "return"
            /\ UNCHANGED <<num, mask_i>>
    /\ entering_mask' = Some([f0 |-> f0, phoneme |-> phoneme, spec |-> spec])
    /\ UNCHANGED <<error, ex_args, ex_arrays, length, notsilence_range, offset,
                   weight, split_second_list, mask_length, mask_offset, ret,
                   resampled_len, trimmed, spans>>
    /\ UNCHANGED <<shares, ds_inputs>>
    /\ UNCHANGED <<gr_vars, fm_vars, cd_vars, ds_tables, ds_call>>

\* lines 219-223: one iteration of the masking loop
MaskSpan ==
    /\ pc = "mask_loop"
    /\ mask_i < num
    /\ LET high == RatInt(RatMul(rate, time_mask_max_second))
       IN  IF high <= 0
           THEN \* numpy.random.randint(0)
                /\ pc' = "raised"
                /\ error' = <<"ValueError", 220>>
                /\ UNCHANGED <<f0, phoneme, mask_i, mask_length, mask_offset,
                               spans>>
           ELSE \E ml \in RandInt(high) :
                /\ mask_length' = ml
                /\ IF Len(f0) - ml + 1 <= 0
                   THEN /\ pc' = "raised"
                        /\ error' = <<"ValueError", 221>>
                        /\ UNCHANGED <<f0, phoneme, mask_i, mask_offset,
                                       spans>>
                   ELSE \E mo \in RandInt(Len(f0) - ml + 1) :
                        /\ mask_offset' = mo
                        /\ f0' = SliceAssign(f0, mo, mo + ml, Rat(0))
                        /\ phoneme' = SliceAssign(phoneme, mo, mo + ml, 0)
                        /\ mask_i' = mask_i + 1
                        /\ spans' = Append(spans, <<mo, ml>>)
                        /\ UNCHANGED <<pc, error>>
    /\ UNCHANGED <<ex_args, silence, volume, spec, length, notsilence_range,
                   offset, weight, split_second_list, num, ret, resampled_len,
                   trimmed, entering_mask>>
    /\ ds_inputs' = StoreThrough(StoreThrough(ds_inputs, "f0", f0'),
                                 "phoneme", phoneme')
    /\ UNCHANGED shares
    /\ UNCHANGED <<gr_vars, fm_vars, cd_vars, ds_tables, ds_call>>

\* lines 225-229: the record is returned; the cast to float32 keeps the
\* number of rows and, in this exact arithmetic, the values
Return ==
    /\ \/ pc = "return"
       \/ pc = "mask_loop" /\ mask_i = num
    /\ ret' = Some([f0 |-> f0, phoneme |-> phoneme, spec |-> spec])
    /\ pc' = "done"
    /\ UNCHANGED <<error, ex_args, ex_arrays, ex_locals, ex_history>>
    /\ UNCHANGED <<shares, ds_inputs>>
    /\ UNCHANGED <<gr_vars, fm_vars, cd_vars, ds_tables, ds_call>>

----------------------------------------------------------------------------
(* Specification SpecExtract: one call of extract_input.  The initial      *)
(* state is the one reached at line 143: the arguments are bound and the   *)
(* series are resampled to the rate of the spectrogram.  What              *)
(* SamplingData.resample returns is an input: this code does not constrain *)
(* its length.  The explored inputs are the union of four families, each   *)
(* wide in the inputs of one part of the body.                             *)

\* the rates (samples per second) of the spectrogram
Rates == {Rat(1), <<3, 2>>}

\* numpy.arange(1, n + 1): every row differs from the others and from 0
Arange(n) == [k \in 1..n |-> k]
RatArange(n) == [k \in 1..n |-> Rat(k)]

ExtractInitWith(lens, sil, vol, plist, guard, maxlen, mode, tmax, trate, r) ==
    /\ pc = "assert"
    /\ error = <<>>
    /\ phoneme_list_data = plist
    /\ prepost_silence_length = guard
    /\ max_sampling_length = maxlen
    /\ f0_process_mode = mode
    /\ time_mask_max_second = tmax
    /\ time_mask_rate = trate
    /\ rate = r
    /\ f0 = RatArange(lens.f0)
    /\ phoneme = Arange(lens.phoneme)
    /\ silence = sil
    /\ volume = IF vol THEN Some(RatArange(lens.volume)) ELSE None
    /\ spec = Arange(lens.spec)
    /\ length = 0
    /\ notsilence_range = Range(0, 0)
    /\ offset = None
    /\ weight = None
    /\ split_second_list = <<>>
    /\ num = 0
    /\ mask_i = 0
    /\ mask_length = 0
    /\ mask_offset = 0
    /\ ret = None
    /\ resampled_len = [lens EXCEPT !.volume = IF vol THEN @ ELSE 0]
    /\ trimmed = None
    /\ entering_mask = None
    /\ spans = <<>>
    /\ shares = SharesAtLine143

ex_Idle ==
    /\ pc = "idle"
    /\ error = <<>>
    /\ phoneme_list_data = None
    /\ prepost_silence_length = 0
    /\ max_sampling_length = 0
    /\ f0_process_mode = "normal"
    /\ time_mask_max_second = Rat(0)
    /\ time_mask_rate = Rat(0)
    /\ rate = Rat(1)
    /\ f0 = <<>>
    /\ phoneme = <<>>
    /\ silence = <<>>
    /\ volume = None
    /\ spec = <<>>
    /\ length = 0
    /\ notsilence_range = Range(0, 0)
    /\ offset = None
    /\ weight = None
    /\ split_second_list = <<>>
    /\ num = 0
    /\ mask_i = 0
    /\ mask_length = 0
    /\ mask_offset = 0
    /\ ret = None
    /\ resampled_len = None
    /\ trimmed = None
    /\ entering_mask = None
    /\ spans = <<>>
    /\ shares = SharesAfterCopy

Lens(n_spec, n_f0, n_phoneme, n_silence, n_volume) ==
    [spec |-> n_spec, f0 |-> n_f0, phoneme |-> n_phoneme,
     silence |-> n_silence, volume |-> n_volume]

LensPlus(n, d) ==
    Lens(n + d.spec, n + d.f0, n + d.phoneme, n + d.silence, n + d.volume)

\* how many samples each resampled series has beyond the shortest one
Slacks == {Lens(0, 0, 0, 0, 0), Lens(2, 1, 0, 1, 1), Lens(1, 1, 1, 1, 0)}

\* a mask continued by k samples that alternate, the first one being the
\* negation of the last sample of the mask
Padded(mask, k) ==
    [i \in 1..(Len(mask) + k) |->
        IF i <= Len(mask) THEN mask[i]
        ELSE (mask[Len(mask)] = ((i - Len(mask)) % 2 = 0))]

NoSilence(n) == [i \in 1..n |-> FALSE]

\* phoneme span lists: contiguous spans from second 0 on that end at whole
\* seconds
Labels == {"a", "k", "pau", "n"}

SpanList(ends, labels) ==
    [k \in 1..Len(ends) |->
        [phoneme |-> labels[k],
         start |-> IF k = 1 THEN Rat(0) ELSE Rat(ends[k - 1]),
         end |-> Rat(ends[k])]]

PhonemeLists ==
    {SpanList(<<e1>>, <<l1>>) : e1 \in 1..MaxEnd, l1 \in Labels}
    \cup {SpanList(<<e[1], e[2]>>, <<l1, l2>>) :
            e \in {x \in (1..MaxEnd) \X (1..MaxEnd) : x[1] < x[2]},
            l1 \in Labels, l2 \in {"a", "k"}}

MaskSeconds == {Rat(0), <<1, 2>>, Rat(1), Rat(2)}
MaskRates == {Rat(0), <<1, 2>>, Rat(1)}

\* wide in the silence mask, the lengths, the guard and the crop
InitAlign ==
    \E n \in 1..MaxLen, d \in Slacks, sil \in [1..MaxLen -> BOOLEAN],
       vol \in BOOLEAN, guard \in 0..MaxSilenceGuard, maxlen \in 1..MaxLen,
       mode \in F0ProcessMode :
        /\ \A i \in (n + 1)..MaxLen : sil[i]
        /\ ExtractInitWith(LensPlus(n, d),
                           Padded(Slice(sil, 0, n), d.silence), vol,
                           Some(SpanList(<<1, 2>>, <<"a", "k">>)),
                           guard, maxlen, mode, Rat(0), Rat(0), Rat(1))

\* wide in the phoneme spans, the mode and the rate
InitAggregate ==
    \E lead \in 0..1, vol \in BOOLEAN, maxlen \in {MaxLen - 1, MaxLen},
       mode \in F0ProcessMode \ {"normal"},
       plist \in {None} \cup {Some(l) : l \in PhonemeLists}, r \in Rates :
        ExtractInitWith(LensPlus(MaxLen, Lens(0, 0, 0, 0, 0)),
                        [i \in 1..MaxLen |-> i <= lead], vol, plist,
                        0, maxlen, mode, Rat(0), Rat(0), r)

\* wide in the masking arguments
InitMask ==
    \E n \in 1..MaxLen, maxlen \in {MaxLen - 1, MaxLen}, r \in Rates,
       tmax \in MaskSeconds, trate \in MaskRates :
        ExtractInitWith(LensPlus(n, Lens(0, 0, 0, 0, 0)), NoSilence(n), FALSE,
                        None, 0, maxlen, "normal", tmax, trate, r)

\* wide in the lengths of the resampled series
WideLens == {1, 2, 1 + LengthTolerance}

InitGuard ==
    \E n_spec \in WideLens, n_f0 \in WideLens, n_phoneme \in WideLens,
       n_silence \in WideLens, n_volume \in WideLens \cup {0} :
        ExtractInitWith(Lens(n_spec, n_f0, n_phoneme, n_silence, n_volume),
                        NoSilence(n_silence), n_volume > 0, None,
                        0, MaxLen, "normal", Rat(0), Rat(0), Rat(1))

ex_Init == InitAlign \/ InitAggregate \/ InitMask \/ InitGuard

----------------------------------------------------------------------------
(* Specification SpecRange: one call of get_notsilence_range on every mask *)
(* of at most MaxMaskLen samples.                                          *)

BoolSeqs(n) == UNION {[1..k -> BOOLEAN] : k \in 0..n}

gr_Init ==
    /\ gr_silence \in BoolSeqs(MaxMaskLen)
    /\ gr_guard \in 0..MaxGuard
    /\ gr_out = None

gr_Idle ==
    /\ gr_silence = <<>>
    /\ gr_guard = 0
    /\ gr_out = None

GetNotsilenceRange ==
    /\ gr_out = None
    /\ gr_out' = Some(get_notsilence_range(gr_silence, gr_guard))
    /\ UNCHANGED <<gr_silence, gr_guard, fm_vars, ex_vars, ds_vars,
                   cd_vars>>

----------------------------------------------------------------------------
(* Specification SpecF0Mean: f0_mean called twice in a row on one array.   *)

RatSeqs(n, top) == UNION {[1..k -> {Rat(v) : v \in 0..top}] : k \in 1..n}

\* ascending lists of whole seconds
SplitLists ==
    {s \in UNION {[1..k -> 1..MaxSplit] : k \in 0..MaxSplits} :
        \A k \in 1..(Len(s) - 1) : s[k] < s[k + 1]}

fm_Init ==
    /\ fm_f0 \in RatSeqs(MaxF0Len, MaxPitch)
    /\ fm_rate \in Rates
    /\ \E s \in SplitLists : fm_split = [k \in 1..Len(s) |-> Rat(s[k])]
    /\ fm_weight \in {None} \cup {Some(w) : w \in [1..Len(fm_f0) -> {Rat(v) : v \in 0..MaxWeight}]}
    /\ fm_in = fm_f0
    /\ fm_first = None
    /\ fm_calls = 0

fm_Idle ==
    /\ fm_f0 = <<>>
    /\ fm_rate = Rat(1)
    /\ fm_split = <<>>
    /\ fm_weight = None
    /\ fm_in = <<>>
    /\ fm_first = None
    /\ fm_calls = 0

\* output = f0_mean(f0=f0, ...): f0 is mutated in place and returned
F0MeanCall ==
    /\ fm_calls < 2
    /\ fm_f0' = f0_mean(fm_f0, fm_rate, fm_split, fm_weight)
    /\ fm_first' = IF fm_calls = 0 THEN Some(fm_f0') ELSE fm_first
    /\ fm_calls' = fm_calls + 1
    /\ UNCHANGED <<fm_rate, fm_split, fm_weight, fm_in, gr_vars, ex_vars,
                   ds_vars, cd_vars>>

----------------------------------------------------------------------------
(* FeatureDataset, SpeakerFeatureDataset, UnbalancedSpeakerFeatureDataset  *)
(* and the calls of __getitem__ (lines 231-296).  A stored series is a     *)
(* record [array, rate]; a stored Input record has the fields f0, phoneme, *)
(* spec, silence, volume (Optional) and phoneme_list (Optional).           *)

Series(arr, r) == [array |-> arr, rate |-> r]

\* SamplingData.resample: a new array at the rate target_rate, whose row k
\* is the row of the stored array at the same time
resample(series, target_rate) ==
    LET n == RatInt(RatDiv(RatMul(Rat(Len(series.array)), target_rate),
                           series.rate))
    IN  [k \in 1..n |->
            series.array[RatInt(RatDiv(RatMul(Rat(k - 1), series.rate),
                                       target_rate)) + 1]]

DatasetKinds == {"feature", "speaker", "unbalanced"}

\* lines 278-282: the positions of the weighted speaker, ascending
WeightedIndexes(speaker_ids_a, weighted_speaker_id) ==
    ArgWhere([k \in 1..Len(speaker_ids_a) |->
                 speaker_ids_a[k] = weighted_speaker_id])

\* mutant: every matching record is counted weight times on top of the base
UnbalancedLen_full(base, k, w) == base + k * w

\* lines 286-287: UnbalancedSpeakerFeatureDataset.__len__
UnbalancedLen(base, k, w) == base + k * (w - 1)

\* __len__ of the indexed class (lines 231-232, 260-261, 286-287)
DatasetLen ==
    IF ds_kind = "unbalanced"
    THEN UnbalancedLen(Len(ds_inputs), Len(ds_weighted_indexes), ds_weight)
    ELSE Len(ds_inputs)

\* mutant: the base size is not subtracted before the modulo
ResolveIndex_nobase(i, base, widx) ==
    IF i >= base THEN widx[(i % Len(widx)) + 1] ELSE i

\* lines 289-294: the index that UnbalancedSpeakerFeatureDataset.__getitem__
\* passes to SpeakerFeatureDataset.__getitem__
ResolveIndex(i, base, widx) ==
    IF i >= base THEN widx[((i - base) % Len(widx)) + 1] ELSE i

\* lines 234-251 and 137-143: FeatureDataset.__getitem__ binds the stored
\* record and the fields of the dataset to the arguments of extract_input,
\* which resamples the series to the rate of the spectrogram
Load(input) ==
    /\ pc' = "assert"
    /\ error' = <<>>
    /\ phoneme_list_data' = input.phoneme_list
    /\ prepost_silence_length' = ds_config.prepost_silence_length
    /\ max_sampling_length' = ds_config.max_sampling_length
    /\ f0_process_mode' = ds_config.f0_process_mode
    /\ time_mask_max_second' = ds_config.time_mask_max_second
    /\ time_mask_rate' = ds_config.time_mask_rate
    /\ rate' = input.spec.rate
    /\ f0' = resample(input.f0, input.spec.rate)
    /\ phoneme' = resample(input.phoneme, input.spec.rate)
    /\ silence' = resample(input.silence, input.spec.rate)
    /\ volume' = IF input.volume # None
                 THEN Some(resample(Get(input.volume), input.spec.rate))
                 ELSE None
    /\ spec' = input.spec.array
    /\ shares' = SharesAtLine143
    /\ length' = 0
    /\ notsilence_range' = Range(0, 0)
    /\ offset' = None
    /\ weight' = None
    /\ split_second_list' = <<>>
    /\ num' = 0
    /\ mask_i' = 0
    /\ mask_length' = 0
    /\ mask_offset' = 0
    /\ ret' = None
    /\ resampled_len' = Lens(Len(spec'), Len(f0'), Len(phoneme'),
                             Len(silence'),
                             IF volume' = None THEN 0 ELSE Len(Get(volume')))
    /\ trimmed' = None
    /\ entering_mask' = None
    /\ spans' = <<>>

\* mutant: the oversampled indexes are served round-robin by rotating the
\* list weighted_indexes
GetItem_rotate ==
    /\ pc = "idle"
    /\ ds_calls < MaxCalls
    /\ \E i \in 0..(DatasetLen - 1) :
        LET over == ds_kind = "unbalanced" /\ i >= Len(ds_inputs)
            b == IF over THEN ds_weighted_indexes[1] ELSE i
        IN  /\ ds_i' = Some(i)
            /\ ds_base' = b
            /\ ds_weighted_indexes' =
                   IF over
                   THEN Tail(ds_weighted_indexes) \o <<ds_weighted_indexes[1]>>
                   ELSE ds_weighted_indexes
            /\ Load(ds_inputs[b + 1])
    /\ ds_calls' = ds_calls + 1
    /\ ds_out' = None
    /\ ds_log' = Slice(ds_log, 0, 1)
    /\ UNCHANGED <<ds_inputs, ds_kind, ds_config, ds_speaker_ids,
                   ds_weighted_speaker_id, ds_weight, ds_built>>
    /\ UNCHANGED <<gr_vars, fm_vars, cd_vars>>

\* lines 289-296, 263-264 and 234-251: __getitem__(i) of the indexed class,
\* down to the call of extract_input
GetItem ==
    /\ pc = "idle"
    /\ ds_calls < MaxCalls
    /\ \E i \in 0..(DatasetLen - 1) :
        LET b == IF ds_kind = "unbalanced"
                 THEN ResolveIndex(i, Len(ds_inputs), ds_weighted_indexes)
                 ELSE i
        IN  /\ ds_i' = Some(i)
            /\ ds_base' = b
            /\ ds_weighted_indexes' = ds_weighted_indexes
            /\ Load(ds_inputs[b + 1])
    /\ ds_calls' = ds_calls + 1
    /\ ds_out' = None
    /\ ds_log' = Slice(ds_log, 0, 1)
    /\ UNCHANGED <<ds_inputs, ds_kind, ds_config, ds_speaker_ids,
                   ds_weighted_speaker_id, ds_weight, ds_built>>
    /\ UNCHANGED <<gr_vars, fm_vars, cd_vars>>

\* the entry of ds_log for the call that ends
LogEntry(out) ==
    [i |-> Get(ds_i), offset |-> offset, num |-> num, spans |-> spans,
     out |-> out, error |-> error]

\* lines 263-266: extract_input has returned; SpeakerFeatureDataset adds the
\* speaker id of the index it was given to the returned dict
ReturnItem ==
    /\ pc = "done"
    /\ ds_i # None
    /\ ds_out' = Some([f0 |-> Get(ret).f0, phoneme |-> Get(ret).phoneme,
                       spec |-> Get(ret).spec,
                       speaker_id |-> IF ds_kind = "feature" THEN None
                                      ELSE Some(ds_speaker_ids[ds_base + 1])])
    /\ ds_log' = Append(ds_log, LogEntry(ds_out'))
    /\ ds_i' = None
    /\ pc' = "idle"
    /\ UNCHANGED <<error, ex_args, ex_arrays, ex_locals, ret, ex_history,
                   shares>>
    /\ UNCHANGED <<ds_inputs, ds_tables, ds_base, ds_calls>>
    /\ UNCHANGED <<gr_vars, fm_vars, cd_vars>>

\* the exception raised in extract_input leaves __getitem__
RaiseItem ==
    /\ pc = "raised"
    /\ ds_i # None
    /\ ds_log' = Append(ds_log, LogEntry(None))
    /\ ds_out' = None
    /\ ds_i' = None
    /\ pc' = "idle"
    /\ UNCHANGED <<error, ex_args, ex_arrays, ex_locals, ret, ex_history,
                   shares>>
    /\ UNCHANGED <<ds_inputs, ds_tables, ds_base, ds_calls>>
    /\ UNCHANGED <<gr_vars, fm_vars, cd_vars>>

\* ---- the datasets explored ----

DatasetConfig(guard, maxlen, mode, tmax, trate) ==
    [prepost_silence_length |-> guard, max_sampling_length |-> maxlen,
     f0_process_mode |-> mode, time_mask_max_second |-> tmax,
     time_mask_rate |-> trate]

\* the stored record of utterance u: n rows per series at rate 1, the pitch
\* stored at rate 2; the rows of different utterances differ
StoredInput(u, n, sil, vol, plist) ==
    [f0 |-> Series([k \in 1..(2 * n) |-> Rat(10 * u + (k + 1) \div 2)],
                   Rat(2)),
     phoneme |-> Series([k \in 1..n |-> 10 * u + k], Rat(1)),
     spec |-> Series([k \in 1..n |-> 10 * u + k], Rat(1)),
     silence |-> Series(sil, Rat(1)),
     volume |-> IF vol THEN Some(Series([k \in 1..n |-> Rat(k)], Rat(1)))
                ELSE None,
     phoneme_list |-> plist]

\* the state after the constructors (lines 254-284); the assertions of lines
\* 256 and 284 hold
DatasetInitWith(kind, inputs, config, ids, wid, w) ==
    /\ kind # "feature" => Len(ids) = Len(inputs)
    /\ kind = "unbalanced" => Len(WeightedIndexes(ids, wid)) > 0
    /\ ds_kind = kind
    /\ ds_inputs = inputs
    /\ ds_config = config
    /\ ds_speaker_ids = ids
    /\ ds_weighted_speaker_id = wid
    /\ ds_weight = w
    /\ ds_weighted_indexes = IF kind = "unbalanced"
                             THEN WeightedIndexes(ids, wid) ELSE <<>>
    /\ ds_i = None
    /\ ds_base = 0
    /\ ds_out = None
    /\ ds_calls = 0
    /\ ds_built = [inputs |-> inputs, speaker_ids |-> ids,
                   weighted_indexes |-> ds_weighted_indexes]
    /\ ds_log = <<>>

ds_Idle ==
    DatasetInitWith("feature", <<>>,
                    DatasetConfig(0, 0, "normal", Rat(0), Rat(0)),
                    <<>>, 0, 1)

\* the speaker ids of a table: the id is only compared with
\* weighted_speaker_id (line 281), so two ids make every case
SpeakerIds == {0, 1}

\* wide in the speaker table, the weighted speaker and the weight; every
\* utterance is one sample long and is extracted as it is
InitIndex ==
    \E n \in 1..MaxUtterances, ids \in [1..MaxUtterances -> SpeakerIds],
       kind \in {"speaker", "unbalanced"}, wid \in SpeakerIds,
       w \in 1..MaxSpeakerWeight :
        /\ \A u \in (n + 1)..MaxUtterances : ids[u] = 0
        /\ kind = "speaker" => (wid = 0 /\ w = 1)
        /\ DatasetInitWith(kind,
                           [u \in 1..n |->
                               StoredInput(u, 1, NoSilence(1), FALSE, None)],
                           DatasetConfig(0, 1, "normal", Rat(0), Rat(0)),
                           [u \in 1..n |-> ids[u]], wid, w)

\* wide in the extraction: two utterances of MaxLen samples, cropped,
\* aggregated and masked
InitExtraction ==
    \E kind \in DatasetKinds, vol \in BOOLEAN,
       mode \in {"phoneme_mean", "voiced_mora_mean"} :
        DatasetInitWith(kind,
                        <<StoredInput(1, MaxLen,
                                      [k \in 1..MaxLen |-> k = 1], TRUE,
                                      Some(SpanList(<<1, MaxLen>>,
                                                    <<"k", "a">>))),
                          StoredInput(2, MaxLen, NoSilence(MaxLen), vol,
                                      Some(SpanList(<<1, MaxLen>>,
                                                    <<"a", "k">>)))>>,
                        DatasetConfig(0, MaxLen - 1, mode, Rat(2), <<1, 4>>),
                        IF kind = "feature" THEN <<>> ELSE <<0, 1>>,
                        IF kind = "unbalanced" THEN 1 ELSE 0,
                        IF kind = "unbalanced" THEN 2 ELSE 1)

ds_Init == InitIndex \/ InitExtraction

----------------------------------------------------------------------------
(* create_dataset (lines 310-410).  A stem is a number; a dict of paths    *)
(* keyed by stem is given by its set of keys, the path of stem k in the    *)
(* stream s being <<s, k>>.  config.valid_num, config.weighted_speaker_id  *)
(* and config.speaker_weight are None in the explored configurations.      *)

\* the stems that the globs of the required streams may find
Keys == 1..MaxKeys

\* a stem that only the glob of an optional stream finds
ExtraKey == MaxKeys + 1

\* sorted(d.keys())
RECURSIVE Sorted(_)
Sorted(S) ==
    IF S = {} THEN <<>>
    ELSE LET m == CHOOSE x \in S : \A y \in S : x <= y
         IN  <<m>> \o Sorted(S \ {m})

\* set(l)
ToSet(l) == {l[k] : k \in 1..Len(l)}

\* the orders in which a list of n items may leave shuffle
Perms(n) ==
    {q \in [1..n -> 1..n] : \A a, b \in 1..n : a # b => q[a] # q[b]}

\* the list l after a shuffle that puts item q[k] at place k
Shuffled(l, q) == [k \in 1..Len(l) |-> l[q[k]]]

\* mutant: one key more than the held-out ones is left out of the train split
TrainsOf_skip(l, n) == Slice(l, n + 1, Len(l))

\* line 355: fn_list[test_num:]
TrainsOf(l, n) == Slice(l, n, Len(l))

\* line 356: fn_list[:test_num]
TestsOf(l, n) == Slice(l, 0, n)

\* lines 345-349: the dict from stem to speaker id; a stem listed under two
\* speakers keeps the later one
SpeakerIdsOf(d) ==
    [fn \in UNION {d[k] : k \in 1..Len(d)} |->
        (CHOOSE k \in 1..Len(d) :
            /\ fn \in d[k]
            /\ \A j \in 1..Len(d) : fn \in d[j] => j <= k) - 1]

\* lines 361-368: the line at which building the LazyInput of fn raises
\* KeyError, 0 when it is built
KeyErrorLine(fn) ==
    IF fn \notin files.f0 THEN 361
    ELSE IF fn \notin files.phoneme THEN 362
    ELSE IF fn \notin files.spec THEN 363
    ELSE IF fn \notin files.silence THEN 364
    ELSE IF files.phoneme_list # None /\ fn \notin Get(files.phoneme_list)
    THEN 366
    ELSE IF files.volume # None /\ fn \notin Get(files.volume) THEN 368
    ELSE 0

\* lines 360-369: LazyInput of the stem fn
LazyInputOf(fn) ==
    [f0_path |-> <<"f0", fn>>, phoneme_path |-> <<"phoneme", fn>>,
     spec_path |-> <<"spec", fn>>, silence_path |-> <<"silence", fn>>,
     phoneme_list_path |-> IF files.phoneme_list # None
                           THEN Some(<<"phoneme_list", fn>>) ELSE None,
     volume_path |-> IF files.volume # None
                     THEN Some(<<"volume", fn>>) ELSE None]

\* lines 358-398: _dataset(fns) is <<exception, line>> when a stem has no
\* path in a dict, else Some(the inputs and the speaker ids of the dataset)
DatasetOf(fns) ==
    IF \E k \in 1..Len(fns) : KeyErrorLine(fns[k]) # 0
    THEN LET k == CHOOSE x \in 1..Len(fns) :
                      /\ KeyErrorLine(fns[x]) # 0
                      /\ \A y \in 1..(x - 1) : KeyErrorLine(fns[y]) = 0
         IN  <<"KeyError", KeyErrorLine(fns[k])>>
    ELSE Some([inputs |-> [k \in 1..Len(fns) |-> LazyInputOf(fns[k])],
               speaker_ids |->
                   IF speaker_ids = None THEN None
                   ELSE Some([k \in 1..Len(fns) |->
                                 Get(speaker_ids)[fns[k]]])])

\* lines 311-322: the required streams
GlobRequired ==
    /\ cd_pc = "start"
    /\ fn_list' = Sorted(files.f0)
    /\ LET line == IF Len(fn_list') = 0 THEN 313
                   ELSE IF ToSet(fn_list') # files.phoneme THEN 316
                   ELSE IF ToSet(fn_list') # files.spec THEN 319
                   ELSE IF ToSet(fn_list') # files.silence THEN 322
                   ELSE 0
       IN  IF line # 0
           THEN /\ cd_pc' = "raised"
                /\ cd_error' = <<"AssertionError", line>>
           ELSE /\ cd_pc' = "phoneme_list"
                /\ cd_error' = cd_error
    /\ UNCHANGED <<cd_config, seed, speaker_ids, trains, tests, train_inputs,
                   test_inputs, rng, cd_log>>
    /\ UNCHANGED <<gr_vars, fm_vars, ex_vars, ds_vars>>

\* lines 324-330: the phoneme-span lists
GlobPhonemeList ==
    /\ cd_pc = "phoneme_list"
    /\ IF files.phoneme_list # None
       THEN /\ fn_list' = Sorted(Get(files.phoneme_list))
            /\ IF Len(fn_list') > 0
               THEN /\ cd_pc' = "volume"
                    /\ cd_error' = cd_error
               ELSE /\ cd_pc' = "raised"
                    /\ cd_error' = <<"AssertionError", 330>>
       ELSE /\ cd_pc' = "volume"
            /\ UNCHANGED <<fn_list, cd_error>>
    /\ UNCHANGED <<cd_config, seed, speaker_ids, trains, tests, train_inputs,
                   test_inputs, rng, cd_log>>
    /\ UNCHANGED <<gr_vars, fm_vars, ex_vars, ds_vars>>

\* lines 332-336: the volume series
GlobVolume ==
    /\ cd_pc = "volume"
    /\ IF files.volume # None
       THEN /\ fn_list' = Sorted(Get(files.volume))
            /\ IF Len(fn_list') > 0
               THEN /\ cd_pc' = "speaker"
                    /\ cd_error' = cd_error
               ELSE /\ cd_pc' = "raised"
                    /\ cd_error' = <<"AssertionError", 336>>
       ELSE /\ cd_pc' = "speaker"
            /\ UNCHANGED <<fn_list, cd_error>>
    /\ UNCHANGED <<cd_config, seed, speaker_ids, trains, tests, train_inputs,
                   test_inputs, rng, cd_log>>
    /\ UNCHANGED <<gr_vars, fm_vars, ex_vars, ds_vars>>

\* lines 338-350: the speaker of every stem
SpeakerDict ==
    /\ cd_pc = "speaker"
    /\ IF speaker_dict = None
       THEN /\ cd_pc' = "shuffle"
            /\ UNCHANGED <<speaker_ids, cd_error>>
       ELSE IF num_speaker # Len(Get(speaker_dict))
       THEN /\ cd_pc' = "raised"
            /\ cd_error' = <<"AssertionError", 343>>
            /\ UNCHANGED speaker_ids
       ELSE /\ speaker_ids' = Some(SpeakerIdsOf(Get(speaker_dict)))
            /\ IF ToSet(fn_list) \subseteq DOMAIN Get(speaker_ids')
               THEN /\ cd_pc' = "shuffle"
                    /\ cd_error' = cd_error
               ELSE /\ cd_pc' = "raised"
                    /\ cd_error' = <<"AssertionError", 350>>
    /\ UNCHANGED <<cd_config, seed, fn_list, trains, tests, train_inputs,
                   test_inputs, rng, cd_log>>
    /\ UNCHANGED <<gr_vars, fm_vars, ex_vars, ds_vars>>

\* lines 352-356: the list is shuffled in place by a generator seeded with
\* config.seed and split.  The order that the generator produces is not
\* decided by this code: it is any order, the same one whenever a list of
\* the same length is shuffled with the same seed.
ShuffleSplit ==
    /\ cd_pc = "shuffle"
    /\ \E q \in Perms(Len(fn_list)) :
          /\ rng[<<seed, Len(fn_list)>>] \in {None, Some(q)}
          /\ rng' = [rng EXCEPT ![<<seed, Len(fn_list)>>] = Some(q)]
          /\ fn_list' = Shuffled(fn_list, q)
    /\ trains' = TrainsOf(fn_list', test_num)
    /\ tests' = TestsOf(fn_list', test_num)
    /\ cd_pc' = "train"
    /\ UNCHANGED <<cd_error, cd_config, seed, speaker_ids, train_inputs,
                   test_inputs, cd_log>>
    /\ UNCHANGED <<gr_vars, fm_vars, ex_vars, ds_vars>>

\* line 408: _dataset(trains)
BuildTrain ==
    /\ cd_pc = "train"
    /\ LET d == DatasetOf(trains)
       IN  IF Len(d) = 2
           THEN /\ cd_pc' = "raised"
                /\ cd_error' = d
                /\ UNCHANGED train_inputs
           ELSE /\ cd_pc' = "test"
                /\ train_inputs' = d
                /\ UNCHANGED cd_error
    /\ UNCHANGED <<cd_config, seed, fn_list, speaker_ids, trains, tests,
                   test_inputs, rng, cd_log>>
    /\ UNCHANGED <<gr_vars, fm_vars, ex_vars, ds_vars>>

\* lines 409-411: _dataset(tests, for_test=True) and the return
BuildTest ==
    /\ cd_pc = "test"
    /\ LET d == DatasetOf(tests)
       IN  IF Len(d) = 2
           THEN /\ cd_pc' = "raised"
                /\ cd_error' = d
                /\ UNCHANGED <<test_inputs, cd_log>>
           ELSE /\ cd_pc' = "done"
                /\ test_inputs' = d
                /\ cd_log' = Append(cd_log,
                                    [seed |-> seed, fn_list |-> fn_list,
                                     trains |-> trains, tests |-> tests])
                /\ UNCHANGED cd_error
    /\ UNCHANGED <<cd_config, seed, fn_list, speaker_ids, trains, tests,
                   train_inputs, rng>>
    /\ UNCHANGED <<gr_vars, fm_vars, ex_vars, ds_vars>>

\* create_dataset is called again with the same config on the same files
CallAgain ==
    /\ cd_pc = "done"
    /\ Len(cd_log) < MaxRuns
    /\ seed' = seed
    /\ cd_pc' = "start"
    /\ fn_list' = <<>>
    /\ speaker_ids' = None
    /\ trains' = <<>>
    /\ tests' = <<>>
    /\ train_inputs' = None
    /\ test_inputs' = None
    /\ UNCHANGED <<cd_error, cd_config, rng, cd_log>>
    /\ UNCHANGED <<gr_vars, fm_vars, ex_vars, ds_vars>>

\* ---- the configurations explored ----

Files(k_f0, k_phoneme, k_spec, k_silence, k_phoneme_list, k_volume) ==
    [f0 |-> k_f0, phoneme |-> k_phoneme, spec |-> k_spec,
     silence |-> k_silence, phoneme_list |-> k_phoneme_list,
     volume |-> k_volume]

CreateInitWith(fs, sd, ns, sd_seed, tn) ==
    /\ cd_pc = "start"
    /\ cd_error = <<>>
    /\ files = fs
    /\ speaker_dict = sd
    /\ num_speaker = ns
    /\ seed = sd_seed
    /\ test_num = tn
    /\ fn_list = <<>>
    /\ speaker_ids = None
    /\ trains = <<>>
    /\ tests = <<>>
    /\ train_inputs = None
    /\ test_inputs = None
    /\ rng = [x \in (0..MaxSeed) \X (0..ExtraKey) |-> None]
    /\ cd_log = <<>>

cd_Idle ==
    /\ cd_pc = "idle"
    /\ cd_error = <<>>
    /\ files = Files({}, {}, {}, {}, None, None)
    /\ speaker_dict = None
    /\ num_speaker = 0
    /\ seed = 0
    /\ test_num = 0
    /\ fn_list = <<>>
    /\ speaker_ids = None
    /\ trains = <<>>
    /\ tests = <<>>
    /\ train_inputs = None
    /\ test_inputs = None
    /\ rng = <<>>
    /\ cd_log = <<>>

\* wide in the required streams: one of them may find other stems
InitRequired ==
    \E F \in SUBSET Keys, D \in SUBSET Keys,
       odd \in {"none", "phoneme", "spec", "silence"}, sd \in 0..MaxSeed :
        /\ odd = "none" => D = F
        /\ CreateInitWith(Files(F, IF odd = "phoneme" THEN D ELSE F,
                                IF odd = "spec" THEN D ELSE F,
                                IF odd = "silence" THEN D ELSE F,
                                None, None),
                          None, 0, sd, 1)

\* what the glob of an optional stream may find when the required streams
\* find F: nothing to look for, F, F without a stem, F and one more stem,
\* no file
OptionalFiles(F) ==
    {None, Some(F), Some(F \ {CHOOSE x \in F : \A y \in F : x >= y}),
     Some(F \cup {ExtraKey}), Some({})}

\* wide in the optional streams, the number of held-out stems and the seed
InitOptional ==
    \E F \in (SUBSET Keys) \ {{}}, tn \in 0..MaxTestNum, sd \in 0..MaxSeed :
        \E pl \in OptionalFiles(F), vo \in OptionalFiles(F) :
            CreateInitWith(Files(F, F, F, F, pl, vo), None, 0, sd, tn)

\* wide in the speaker dict: it lists every stem, or the first stem only
InitSpeaker ==
    \E sd \in {<<{1}, (Keys \ {1}) \cup {ExtraKey}>>, <<{1}, {}>>,
               <<Keys, {1}>>},
       ns \in {2, 3}, vo \in {None, Some({1})} :
        CreateInitWith(Files(Keys, Keys, Keys, Keys, None, vo), Some(sd),
                       ns, 0, 1)

cd_Init == InitRequired \/ InitOptional \/ InitSpeaker

----------------------------------------------------------------------------
InitRange == gr_Init /\ fm_Idle /\ ex_Idle /\ ds_Idle /\ cd_Idle
NextRange == GetNotsilenceRange
SpecRange == InitRange /\ [][NextRange]_vars

InitF0Mean == fm_Init /\ gr_Idle /\ ex_Idle /\ ds_Idle /\ cd_Idle
NextF0Mean == F0MeanCall
SpecF0Mean == InitF0Mean /\ [][NextF0Mean]_vars

InitExtract == ex_Init /\ gr_Idle /\ fm_Idle /\ ds_Idle /\ cd_Idle
NextExtract ==
    \/ AssertLengths
    \/ Trim
    \/ Crop
    \/ F0Process
    \/ Mask
    \/ MaskSpan
    \/ Return
SpecExtract == InitExtract /\ [][NextExtract]_vars

InitDataset == ds_Init /\ ex_Idle /\ gr_Idle /\ fm_Idle /\ cd_Idle
NextDataset ==
    \/ GetItem
    \/ AssertLengths
    \/ Trim
    \/ Crop
    \/ F0Process
    \/ Mask
    \/ MaskSpan
    \/ Return
    \/ ReturnItem
    \/ RaiseItem
SpecDataset == InitDataset /\ [][NextDataset]_vars

InitCreate == cd_Init /\ gr_Idle /\ fm_Idle /\ ex_Idle /\ ds_Idle
NextCreate ==
    \/ GlobRequired
    \/ GlobPhonemeList
    \/ GlobVolume
    \/ SpeakerDict
    \/ ShuffleSplit
    \/ BuildTrain
    \/ BuildTest
    \/ CallAgain
SpecCreate == InitCreate /\ [][NextCreate]_vars

----------------------------------------------------------------------------
(* Claims about get_notsilence_range (specification SpecRange).            *)

\* python positions i with silence[i] and not silence[i+1]
SilentToSound(m) == {i \in 0..(Len(m) - 2) : m[i + 1] /\ ~m[i + 2]}
\* python positions i with not silence[i] and silence[i+1]
SoundToSilent(m) == {i \in 0..(Len(m) - 2) : ~m[i + 1] /\ m[i + 2]}

SetMin(S) == CHOOSE x \in S : \A y \in S : x <= y
SetMax(S) == CHOOSE x \in S : \A y \in S : x >= y

PreOf(m) == IF SilentToSound(m) = {} THEN 0 ELSE 1 + SetMin(SilentToSound(m))
PostOf(m) == IF SoundToSilent(m) = {} THEN 0
             ELSE Len(m) - (1 + SetMax(SoundToSilent(m)))

RegressionMask == <<TRUE, TRUE, FALSE, FALSE, FALSE, TRUE, TRUE, TRUE, TRUE>>

\* C3: get_notsilence_range returns range(lo, hi) with lo = max(0, pre - G)
\* and hi = L - max(0, post - G), pre being 1 + the first silent->sound
\* position (0 if none) and post being L - (1 + the last sound->silent
\* position) (0 if none); a mask without transitions gives [0, L) for every
\* G, and [T,T,F,F,F,T,T,T,T] gives [2,5) with G = 0 and [0,7) with G = 2.
C3_RangeFormula ==
    gr_out # None =>
        /\ Get(gr_out) = Range(Max(0, PreOf(gr_silence) - gr_guard),
                               Len(gr_silence)
                                   - Max(0, PostOf(gr_silence) - gr_guard))
        /\ ((\A i \in 1..Len(gr_silence) : gr_silence[i] = gr_silence[1])
                => Get(gr_out) = Range(0, Len(gr_silence)))
        /\ (gr_silence = RegressionMask /\ gr_guard = 0
                => Get(gr_out) = Range(2, 5))
        /\ (gr_silence = RegressionMask /\ gr_guard = 2
                => Get(gr_out) = Range(0, 7))

\* the regression mask has been trimmed with guard 2
C3_Witness ==
    /\ gr_out = Some(Range(0, 7))
    /\ gr_silence = RegressionMask
    /\ gr_guard = 2

----------------------------------------------------------------------------
(* Claims about f0_mean (specification SpecF0Mean).  The segments and the  *)
(* aggregates are restated here from the positions, independently of the   *)
(* loop of f0_mean.                                                        *)

RECURSIVE SumOver(_, _)
SumOver(S, f) ==
    IF S = {} THEN Rat(0)
    ELSE LET x == CHOOSE x \in S : TRUE
         IN  RatAdd(f[x], SumOver(S \ {x}, f))

\* floor(s * r)
FloorProd(s, r) == (s[1] * r[1]) \div (s[2] * r[2])

\* number of the segment that holds sequence index p (python position p - 1)
SegmentOf(p, splits, r) ==
    Cardinality({k \in 1..Len(splits) : FloorProd(splits[k], r) <= p - 1})

\* the samples of the segment of p whose original pitch is > 0
VoicedOf(p, orig, splits, r) ==
    {q \in 1..Len(orig) :
        /\ SegmentOf(q, splits, r) = SegmentOf(p, splits, r)
        /\ orig[q][1] > 0 /\ orig[q][2] > 0}

UnweightedMean(V, orig) == RatDiv(SumOver(V, orig), Rat(Cardinality(V)))

WeightedMean(V, orig, w) ==
    RatDiv(SumOver(V, [q \in 1..Len(orig) |-> RatMul(orig[q], w[q])]),
           SumOver(V, w))

\* the aggregate as the claim C4 states it
StatedAggregate(p, orig, splits, r, wt) ==
    LET V == VoicedOf(p, orig, splits, r)
    IN  IF V = {} THEN Rat(0)
        ELSE IF wt = None THEN UnweightedMean(V, orig)
        ELSE WeightedMean(V, orig, Get(wt))

\* the aggregate of the amended C4: also 0 when the weights of the voiced
\* samples sum to 0
AmendedAggregate(p, orig, splits, r, wt) ==
    LET V == VoicedOf(p, orig, splits, r)
    IN  IF V = {} THEN Rat(0)
        ELSE IF wt = None THEN UnweightedMean(V, orig)
        ELSE IF SumOver(V, Get(wt)) = Rat(0) THEN Rat(0)
        ELSE WeightedMean(V, orig, Get(wt))

\* C4 as stated: after f0_mean every sample equals its segment's aggregate,
\* which is the (weighted) mean of the segment's samples with pitch > 0, and
\* 0 when the segment has no sample with pitch > 0.
C4_AsStated ==
    fm_calls = 1 =>
        /\ Len(fm_f0) = Len(fm_in)
        /\ \A p \in 1..Len(fm_in) :
               fm_f0[p] = StatedAggregate(p, fm_in, fm_split, fm_rate, fm_weight)

\* C4 amended: after f0_mean every sample equals its segment's aggregate: the
\* (weighted) mean of the segment's samples with pitch > 0, and 0 when the
\* segment has no sample with pitch > 0 or when the weights of its samples
\* with pitch > 0 sum to 0.
C4_SegmentAggregate ==
    fm_calls = 1 =>
        /\ Len(fm_f0) = Len(fm_in)
        /\ \A p \in 1..Len(fm_in) :
               fm_f0[p] = AmendedAggregate(p, fm_in, fm_split, fm_rate, fm_weight)

\* a weighted call over at least two segments gave a non-integer mean to one
\* segment and 0 to the voiced samples of another, whose weights are all 0
C4_Witness ==
    /\ fm_calls = 1
    /\ fm_weight # None
    /\ fm_split # <<>>
    /\ \E p \in 1..Len(fm_f0) : fm_f0[p][2] = 3
    /\ \E p \in 1..Len(fm_f0) :
              /\ RatPos(fm_in[p]) /\ fm_f0[p] = Rat(0)
              /\ SumOver(VoicedOf(p, fm_in, fm_split, fm_rate), Get(fm_weight)) = Rat(0)

\* C5: with an empty split list and no weight the first call sets every
\* sample to the unweighted mean of all samples > 0 (0 if there is none) and
\* a second call on that result returns the same array.
C5_Idempotent ==
    (fm_split = <<>> /\ fm_weight = None) =>
        /\ fm_calls >= 1 =>
              LET V == {q \in 1..Len(fm_in) : fm_in[q][1] > 0}
                  m == IF V = {} THEN Rat(0) ELSE UnweightedMean(V, fm_in)
              IN  Get(fm_first) = [p \in 1..Len(fm_in) |-> m]
        /\ fm_calls = 2 => fm_f0 = Get(fm_first)

\* the second call has returned, on an array that had an unvoiced sample and
\* a non-integer mean
C5_Witness ==
    /\ fm_calls = 2
    /\ fm_split = <<>> /\ fm_weight = None
    /\ \E p \in 1..Len(fm_in) : fm_in[p] = Rat(0)
    /\ \E p \in 1..Len(fm_f0) : fm_f0[p][2] = 2

\* C6 as stated: every sample whose input pitch is 0 has output pitch 0.
C6_AsStated ==
    fm_calls = 1 =>
        \A p \in 1..Len(fm_in) : fm_in[p] = Rat(0) => fm_f0[p] = Rat(0)

\* C6 amended: a sample whose input pitch is 0 has output pitch 0 when its
\* segment has no sample with pitch > 0; otherwise it is overwritten with the
\* aggregate of its segment, the value the segment's voiced samples get.
C6_ZeroPitch ==
    fm_calls = 1 =>
        \A p \in 1..Len(fm_in) :
            fm_in[p] = Rat(0) =>
                LET V == VoicedOf(p, fm_in, fm_split, fm_rate)
                IN  /\ V = {} => fm_f0[p] = Rat(0)
                    /\ \A q \in V : fm_f0[p] = fm_f0[q]

\* one unvoiced sample was overwritten with a non-zero aggregate while
\* another, in a segment without voiced samples, stayed 0
C6_Witness ==
    /\ fm_calls = 1
    /\ \E p \in 1..Len(fm_in) : fm_in[p] = Rat(0) /\ fm_f0[p] # Rat(0)
    /\ \E p \in 1..Len(fm_in) :
           /\ fm_in[p] = Rat(0) /\ fm_f0[p] = Rat(0)
           /\ VoicedOf(p, fm_in, fm_split, fm_rate) = {}

----------------------------------------------------------------------------
(* Claims about extract_input (specification SpecExtract).                 *)

Returned == Get(ret)

\* C1: when extract_input returns, f0, phoneme and spec of the record have
\* the same number of rows, whatever the lengths of the resampled series,
\* the guard, max_sampling_length, the mode and the masking arguments.
C1_EqualLengths ==
    ret # None =>
        /\ Len(Returned.f0) = Len(Returned.phoneme)
        /\ Len(Returned.phoneme) = Len(Returned.spec)

\* a record was returned from resampled series of different lengths, after a
\* trim that removed samples, a crop and an aggregation
C1_Witness ==
    /\ ret # None
    /\ resampled_len.spec # resampled_len.f0
    /\ resampled_len.f0 # resampled_len.phoneme
    /\ notsilence_range.start > 0
    /\ offset # None
    /\ f0_process_mode # "normal"
    /\ Len(Returned.spec) > 0

\* the window [o, o + n) of an array
Window(a, o, n) == [k \in 1..n |-> a[o + k]]

\* C2: if the trimmed length exceeds max_sampling_length, the offset is in
\* [0, length - max_sampling_length], f0, phoneme and spec leave the crop as
\* the window [offset, offset + max_sampling_length) of their trimmed series
\* and the emitted length is max_sampling_length; otherwise no offset is
\* drawn, the series are kept and the emitted length is the trimmed length.
C2_CropWindow ==
    (trimmed # None /\ pc # "crop") =>
        LET t == Get(trimmed)
            n == Len(t.f0)
            m == max_sampling_length
        IN  IF n > m
            THEN /\ offset # None
                 /\ Get(offset) \in 0..(n - m)
                 /\ pc = "f0_process" =>
                        /\ length = m
                        /\ f0 = Window(t.f0, Get(offset), m)
                        /\ phoneme = Window(t.phoneme, Get(offset), m)
                        /\ spec = Window(t.spec, Get(offset), m)
                 /\ ret # None =>
                        /\ Len(Returned.f0) = m
                        /\ Len(Returned.phoneme) = m
                        /\ Returned.spec = Window(t.spec, Get(offset), m)
            ELSE /\ offset = None
                 /\ pc = "f0_process" =>
                        /\ length = n
                        /\ f0 = t.f0 /\ phoneme = t.phoneme /\ spec = t.spec
                 /\ ret # None =>
                        /\ Len(Returned.f0) = n
                        /\ Len(Returned.phoneme) = n
                        /\ Returned.spec = t.spec

\* a record was returned after a crop at the largest offset, which is not 0
C2_Witness ==
    /\ ret # None
    /\ offset # None
    /\ Get(offset) > 0
    /\ Get(offset) = Len(Get(trimmed).f0) - max_sampling_length
    /\ Returned.spec = Window(Get(trimmed).spec, Get(offset), max_sampling_length)

\* the series whose lengths the claim C7 compares
GuardedSeries ==
    {"spec", "f0", "phoneme", "silence"}
    \cup (IF volume # None THEN {"volume"} ELSE {})

LengthAssertionFailed ==
    /\ pc = "raised"
    /\ error[1] = "AssertionError"
    /\ error[2] \in 145..148

\* C7 as stated: extract_input fails with an assertion whenever two of the
\* resampled series (spec, f0, phoneme, silence and, if present, volume)
\* differ in length by more than 4 samples, and only then.
C7_AsStated ==
    pc # "assert" =>
        (LengthAssertionFailed
            <=> \E a \in GuardedSeries, b \in GuardedSeries :
                    resampled_len[a] - resampled_len[b] > LengthTolerance - 1)

F0ProcessFailed ==
    /\ pc = "raised"
    /\ error[2] \in 179..209

\* C8 as stated: in a mode other than normal the pitch aggregation fails only
\* when the phoneme span list is missing; in particular it completes in mode
\* phoneme_mean or mora_mean with a span list and no volume series.
C8_AsStated ==
    F0ProcessFailed => phoneme_list_data = None

\* C9: with time_mask_rate = 0 or time_mask_max_second = 0 no masking is
\* performed: no span is drawn, no error is raised, and the emitted f0 and
\* phoneme are the arrays that entered the masking step.
C9_NoMasking ==
    ((time_mask_rate = Rat(0) \/ time_mask_max_second = Rat(0))
      /\ entering_mask # None) =>
        /\ pc \in {"return", "done"}
        /\ spans = <<>>
        /\ f0 = Get(entering_mask).f0
        /\ phoneme = Get(entering_mask).phoneme
        /\ ret # None =>
               /\ Returned.f0 = Get(entering_mask).f0
               /\ Returned.phoneme = Get(entering_mask).phoneme

\* a record was returned with a positive time_mask_rate and
\* time_mask_max_second = 0
C9_Witness ==
    /\ ret # None
    /\ RatPos(time_mask_rate)
    /\ time_mask_max_second = Rat(0)
    /\ Len(Returned.f0) > 1

Covered(p) ==
    \E k \in 1..Len(spans) :
        spans[k][1] < p /\ p <= spans[k][1] + spans[k][2]

\* C10: when both masking arguments are > 0 and a record is returned, the
\* number of masked spans is floor(time_mask_rate * length) or that plus one;
\* every span has a length in [0, floor(rate * time_mask_max_second)) and
\* lies inside [0, length); f0 and phoneme are 0 on every span and unchanged
\* elsewhere; spec is unchanged.
C10_MaskedSpans ==
    (ret # None /\ RatPos(time_mask_max_second) /\ RatPos(time_mask_rate)) =>
        LET e == Get(entering_mask)
            n == Len(e.f0)
            expected == FloorProd(time_mask_rate, Rat(n))
            high == FloorProd(rate, time_mask_max_second)
        IN  /\ Len(spans) \in {expected, expected + 1}
            /\ \A k \in 1..Len(spans) :
                   /\ spans[k][2] >= 0 /\ spans[k][2] < high
                   /\ spans[k][1] >= 0 /\ spans[k][1] + spans[k][2] <= n
            /\ Returned.f0 =
                   [p \in 1..n |-> IF Covered(p) THEN Rat(0) ELSE e.f0[p]]
            /\ Returned.phoneme =
                   [p \in 1..n |-> IF Covered(p) THEN 0 ELSE e.phoneme[p]]
            /\ Returned.spec = e.spec

\* a record was returned with two different masked spans, one of them of two
\* samples, and a sample outside both
C10_Witness ==
    /\ ret # None
    /\ Len(spans) = 2
    /\ spans[1] # spans[2]
    /\ spans[1][2] = 2 /\ spans[2][2] = 1
    /\ \E p \in 1..Len(Returned.f0) : ~Covered(p)

MaskingFailed ==
    /\ pc = "raised"
    /\ error[2] \in 214..223

\* C11 as stated: when masking is active and a span has no valid position
\* (int(rate * time_mask_max_second) is 0, or the drawn mask length exceeds
\* the sequence), extract_input raises no error and still emits a record.
C11_AsStated ==
    MaskingEnabled(time_mask_max_second, time_mask_rate) => ~MaskingFailed

\* C16 as stated: for every mask of length L >= 1 and every guard G >= 0 the
\* returned range is a non-empty sub-range of the mask, 0 <= lo < hi <= L.
C16_AsStated ==
    (gr_out # None /\ Len(gr_silence) >= 1) =>
        /\ 0 <= Get(gr_out).start
        /\ Get(gr_out).start < Get(gr_out).stop
        /\ Get(gr_out).stop <= Len(gr_silence)

\* the position that the emitted sample p (from 1) had in the resampled
\* series, before the silence was trimmed and the window was cropped
OriginalIndex(p) ==
    (p - 1) + notsilence_range.start
    + (IF offset = None THEN 0 ELSE Get(offset))

\* the samples i and j of the resampled series lie in one phoneme span; a
\* span covers the samples int(start * rate) .. int(end * rate) - 1
InSameSpan(i, j, plist) ==
    \E k \in 1..Len(plist) :
        /\ RatInt(RatMul(plist[k].start, rate)) <= i
        /\ i < RatInt(RatMul(plist[k].end, rate))
        /\ RatInt(RatMul(plist[k].start, rate)) <= j
        /\ j < RatInt(RatMul(plist[k].end, rate))

\* C17 as stated: in phoneme_mean mode, two emitted pitch samples whose
\* original (pre-trim, pre-crop) times lie in the same phoneme span have the
\* same value.
C17_AsStated ==
    (pc = "mask" /\ f0_process_mode = "phoneme_mean") =>
        \A p, q \in 1..Len(f0) :
            InSameSpan(OriginalIndex(p), OriginalIndex(q),
                       Get(phoneme_list_data))
                => f0[p] = f0[q]

----------------------------------------------------------------------------
(* Claims about the index layer (specification SpecDataset).               *)

\* the base indexes whose speaker is the weighted one, read off the table
MatchSet ==
    {b \in 0..(Len(ds_speaker_ids) - 1) :
        ds_speaker_ids[b + 1] = ds_weighted_speaker_id}

\* the j-th (from 0) matching base index in ascending order
NthMatch(j) ==
    CHOOSE m \in MatchSet : Cardinality({x \in MatchSet : x < m}) = j

\* the base index that the visible index i is resolved to
Resolved(i) == ResolveIndex(i, Len(ds_inputs), ds_weighted_indexes)

\* what the claim says the visible index i resolves to
StatedBase(i) ==
    IF i < Len(ds_inputs) THEN i
    ELSE NthMatch((i - Len(ds_inputs)) % Cardinality(MatchSet))

\* C12: with weight W >= 1 and k >= 1 matching base indexes, the visible
\* size is base_size + k * (W - 1); an index below base_size resolves to
\* itself, an index i in [base_size, size) to matches[(i - base_size) mod k];
\* when W >= 2 every matching index is reached from some index >= base_size.
C12_Oversampling ==
    ds_kind = "unbalanced" =>
        /\ DatasetLen = Len(ds_inputs) + Cardinality(MatchSet) * (ds_weight - 1)
        /\ \A i \in 0..(DatasetLen - 1) :
              /\ Resolved(i) = StatedBase(i)
              /\ i >= Len(ds_inputs) => Resolved(i) \in MatchSet
        /\ ds_i # None => ds_base = StatedBase(Get(ds_i))
        /\ ds_weight >= 2 =>
              \A m \in MatchSet :
                  \E i \in Len(ds_inputs)..(DatasetLen - 1) : Resolved(i) = m

\* a call on the second oversampled index, of a dataset with two matching
\* records and a record of another speaker before them, has returned
C12_Witness ==
    /\ ds_kind = "unbalanced"
    /\ ds_weight >= 2
    /\ Cardinality(MatchSet) = 2
    /\ 0 \notin MatchSet
    /\ ds_i = Some(Len(ds_inputs) + 1)
    /\ ds_base = NthMatch(1)
    /\ pc = "done"

\* C13: over the visible range [0, size) every base index of the weighted
\* speaker is resolved by exactly W visible indexes and every other base
\* index by exactly one, and the speaker_id attached to a record is the one
\* of the base index it resolved to (whose spectrogram rows the record
\* holds), so an index >= base_size returns the weighted speaker.
C13_Multiplicity ==
    ds_kind = "unbalanced" =>
        /\ \A b \in 0..(Len(ds_inputs) - 1) :
              Cardinality({i \in 0..(DatasetLen - 1) : Resolved(i) = b})
                  = IF b \in MatchSet THEN ds_weight ELSE 1
        /\ \A e \in 1..Len(ds_log) :
              ds_log[e].out # None =>
                  /\ Get(ds_log[e].out).speaker_id
                         = Some(ds_speaker_ids[StatedBase(ds_log[e].i) + 1])
                  /\ \A p \in 1..Len(Get(ds_log[e].out).spec) :
                         \E q \in 1..MaxLen :
                             Get(ds_log[e].out).spec[p]
                                 = 10 * (StatedBase(ds_log[e].i) + 1) + q
                  /\ ds_log[e].i >= Len(ds_inputs) =>
                         Get(ds_log[e].out).speaker_id
                             = Some(ds_weighted_speaker_id)

\* a record of an oversampled index was returned by a dataset that weighs
\* speaker 1 three times and holds a record of speaker 0 as well
C13_Witness ==
    /\ ds_kind = "unbalanced"
    /\ ds_weight = 3
    /\ ds_weighted_speaker_id = 1
    /\ MatchSet # {}
    /\ \E b \in 0..(Len(ds_inputs) - 1) : b \notin MatchSet
    /\ \E e \in 1..Len(ds_log) :
          /\ ds_log[e].i >= Len(ds_inputs)
          /\ ds_log[e].out # None
          /\ Get(ds_log[e].out).speaker_id = Some(1)

\* the calls a and b of the log were made on one index with the same draws
SameCall(a, b) ==
    /\ ds_log[a].i = ds_log[b].i
    /\ ds_log[a].offset = ds_log[b].offset
    /\ ds_log[a].num = ds_log[b].num
    /\ ds_log[a].spans = ds_log[b].spans

\* C18: after any sequence of __getitem__ calls on any of the three classes
\* the arrays of the stored records, the speaker_ids table and the list
\* weighted_indexes are as the constructors left them, and two calls on the
\* same index with the same random draws return equal records.
C18_NoSideEffect ==
    /\ ds_inputs = ds_built.inputs
    /\ ds_speaker_ids = ds_built.speaker_ids
    /\ ds_weighted_indexes = ds_built.weighted_indexes
    /\ \A a, b \in 1..Len(ds_log) :
          SameCall(a, b) =>
              /\ ds_log[a].out = ds_log[b].out
              /\ ds_log[a].error = ds_log[b].error

\* an oversampled index was extracted twice with the same crop and the same
\* masked span of one sample, pitch aggregation being on
C18_Witness ==
    /\ ds_kind = "unbalanced"
    /\ ds_config.f0_process_mode = "voiced_mora_mean"
    /\ Len(ds_log) = 2
    /\ SameCall(1, 2)
    /\ ds_log[1].i >= Len(ds_inputs)
    /\ ds_log[1].out # None
    /\ ds_log[1].offset # None
    /\ \E k \in 1..Len(ds_log[1].spans) : ds_log[1].spans[k][2] >= 1
    /\ \E k \in 1..Len(Get(ds_log[1].out).f0) :
          Get(ds_log[1].out).f0[k] = Rat(0)

----------------------------------------------------------------------------
(* Claims about create_dataset (specification SpecCreate).                 *)

\* the working key set: the stems of the last optional stream that is set,
\* those of f0 when none is
WorkingKeys ==
    IF files.volume # None THEN Get(files.volume)
    ELSE IF files.phoneme_list # None THEN Get(files.phoneme_list)
    ELSE files.f0

\* how many times the key occurs in the list l
Occurrences(key, l) == Cardinality({k \in 1..Len(l) : l[k] = key})

\* the list was shuffled and split
SplitDone == cd_pc \in {"train", "test", "done"}

\* C14: the test split is the first test_num keys of the seed-shuffled key
\* list and the train split is the rest; the two are disjoint and together
\* hold every key of the working key set exactly once; two runs on the same
\* key set with the same seed give the same splits.
C14_Split ==
    /\ SplitDone =>
          /\ Len(tests) = Min(test_num, Len(fn_list))
          /\ \A k \in 1..Len(tests) : tests[k] = fn_list[k]
          /\ Len(trains) = Len(fn_list) - Len(tests)
          /\ \A k \in 1..Len(trains) : trains[k] = fn_list[Len(tests) + k]
          /\ ToSet(tests) \cap ToSet(trains) = {}
          /\ ToSet(tests) \cup ToSet(trains) = WorkingKeys
          /\ \A key \in WorkingKeys :
                Occurrences(key, tests) + Occurrences(key, trains) = 1
    /\ \A a, b \in 1..Len(cd_log) :
          cd_log[a].seed = cd_log[b].seed =>
              /\ cd_log[a].trains = cd_log[b].trains
              /\ cd_log[a].tests = cd_log[b].tests

\* two runs with the same seed on three keys, two of them held out, whose
\* shuffle changed the sorted order
C14_Witness ==
    /\ Len(cd_log) = 2
    /\ cd_log[1].seed = cd_log[2].seed
    /\ Len(cd_log[2].tests) = 2
    /\ Len(cd_log[2].trains) = 1
    /\ cd_log[2].fn_list # Sorted(WorkingKeys)
    /\ cd_log[2].tests[1] > cd_log[2].tests[2]

\* C15 as stated: before any LazyInput or dataset is constructed every key
\* of the working key set has an entry in each required stream (the optional
\* streams only restrict the key set), a mismatch being rejected by the
\* assembly-time key-set checks.
C15_AsStated ==
    /\ SplitDone =>
          ToSet(fn_list) \subseteq
              (files.f0 \cap files.phoneme \cap files.spec \cap files.silence)
    /\ cd_pc = "raised" => cd_error[1] = "AssertionError"

====
